---- MODULE Spec2Model ----
(***************************************************************************)
(* Model of rendezvous-hasher.h: a registry of node ids kept as a singly   *)
(* linked list of heap entries (RendezvousHasher.nodes), and the selector   *)
(* rendezvous_get_node_for, which scores every entry with the configured    *)
(* hash of node_id + item_id and writes the id with the highest score.      *)
(***************************************************************************)
EXTENDS Integers, Sequences, FiniteSets, TLC

\* ------------------------------------------------------------------------
\* Configuration and bounds
\* ------------------------------------------------------------------------

\* Width in bits of RENDEZVOUS_HASHER_ID_T as instantiated in this model; the
\* header's default is unsigned int, and id arithmetic wraps modulo 2^IdBits.
IdBits == 2
IdMod == 2 ^ IdBits
Ids == 0 .. (IdMod - 1)

\* Scores (RENDEZVOUS_HASHER_HASH_T values) range over 0..MaxScore.
MaxScore == 2
Scores == 0 .. MaxScore

\* The hash functions the header is configured with (RENDEZVOUS_HASHER_HASH
\* is a configuration point): the affine maps a * x + b of the id into the
\* scores, with offset b 0 or 1.  The family holds the all-zero function, a
\* constant function above zero (every score ties), functions under which
\* some ids tie and functions that order three ids strictly, in both
\* directions.
HashFunctions ==
  {[x \in Ids |-> (a * x + b) % (MaxScore + 1)] : a \in Scores, b \in {0, 1}}

\* The members without offset: the all-zero function and the linear ones.
LinearHashFunctions == {h \in HashFunctions : h[0] = 0}

\* Number of heap entries RENDEZVOUS_HASHER_MALLOC hands out in one run.
MaxNodes == 3
Addrs == 1 .. MaxNodes

\* Ids the callers pass to add_node / remove_node, and item keys they pass
\* to get_node_for.  The largest id is included so that node_id + item_id
\* wraps around.
NodeIds == {0, 1, IdMod - 1}
Keys == {0, 1, 2}

NULL == 0

RENDEZVOUS_HASHER_OK == 0
RENDEZVOUS_HASHER_ERROR_IS_NULL == -1
RENDEZVOUS_HASHER_ERROR_ARGUMENT_NULL == -2

\* Content of a variable the program has not written yet.
Uninit == -9

\* A heap entry: struct RendezvousHasherNodeList { next; id; }
RendezvousHasherNodeList == [next : {NULL} \cup Addrs, id : Ids]

\* Canonical content of an entry that is not allocated (its bytes are
\* indeterminate and the program never reads them before writing them).
NoEntry == [next |-> NULL, id |-> 0]

VARIABLES
  hash,      \* the configured hash function RENDEZVOUS_HASHER_HASH
  nodes,     \* rh->nodes, the head of the list
  mem,       \* heap: address -> entry
  status,    \* heap: address -> "unused" | "live" | "freed"
  ret,       \* return value of the last call
  out,       \* the output variable of the last call (a fresh local of the
             \* caller, as in test.c's print_and_check): Uninit until written
  visited,   \* number of list entries the loop of the last call dereferenced
             \* (for rendezvous_free and rendezvous_remove_node: kept only
             \* when track is "none")
  call,      \* the last call: operation and arguments
  pre,       \* rh->nodes and the heap entries as they were before the last call
  touched,   \* whether the last call changed rh->nodes or any heap entry
  track,     \* which history the run keeps: "none", "hist" (added, dup_added,
             \* gone) or "memo"; in the runs with interleaving, whether the
             \* caller serialises the calls ("locked") or not ("unlocked");
             \* fixed by the initial state
  added,     \* ids added since the registry was last initialised or torn down
             \* and not removed since
  dup_added, \* whether an id was added while the list already held it
  gone,      \* ids whose only entry was removed and that were not added since
  memo,      \* key and written id of the first successful get_node_for since
             \* the registry last changed (NoMemo: there was none)
  fault,     \* "none", or the undefined behaviour the program ran into:
             \* "null_deref" or "use_after_free"
  trav       \* locals of a rendezvous_get_node_for call that is in progress
             \* (runs with interleaving only)

vars == <<hash, nodes, mem, status, ret, out, visited, call, pre, touched,
          track, added, dup_added, gone, memo, fault, trav>>

\* ------------------------------------------------------------------------
\* Pure helpers over the heap
\* ------------------------------------------------------------------------

\* The configured hash, applied to an id.
RENDEZVOUS_HASHER_HASH(a) == hash[a]

\* Sequence of the ids met when walking `next` from entry p to NULL.
RECURSIVE ListIds(_, _, _)
ListIds(m, p, fuel) ==
  IF p = NULL \/ fuel = 0 THEN <<>>
  ELSE <<m[p].id>> \o ListIds(m, m[p].next, fuel - 1)

\* Sequence of the addresses of the entries met on the same walk.
RECURSIVE ListAddrs(_, _, _)
ListAddrs(m, p, fuel) ==
  IF p = NULL \/ fuel = 0 THEN <<>>
  ELSE <<p>> \o ListAddrs(m, m[p].next, fuel - 1)

Contents == ListIds(mem, nodes, MaxNodes)
PreContents == ListIds(pre.mem, pre.nodes, MaxNodes)

Range(s) == {s[i] : i \in 1 .. Len(s)}

\* RENDEZVOUS_HASHER_MALLOC: the address of a fresh entry.  The library
\* never looks at the value of an address, so the allocator is modelled as
\* handing out addresses in increasing order and never handing out the
\* address of a freed entry again.
CanMalloc(st) == \E a \in Addrs : st[a] = "unused"
RENDEZVOUS_HASHER_MALLOC(st) ==
  CHOOSE a \in Addrs : st[a] = "unused" /\ \A b \in Addrs : b < a => st[b] # "unused"

\* RENDEZVOUS_HASHER_FREE / free on one entry.
FreeEntry(st, a) == [st EXCEPT ![a] = "freed"]
ScrubEntry(m, a) == [m EXCEPT ![a] = NoEntry]

\* Number of entries of s equal to x.
Count(s, x) == Cardinality({i \in 1 .. Len(s) : s[i] = x})
NoMemo == [key |-> Uninit, id |-> Uninit]
NoSnapshot == [nodes |-> NULL, mem |-> [a \in Addrs |-> NoEntry]]

\* In the runs that keep a history, the record of the last call is reduced
\* to what that history is compared with.
NoArgs(op) == [op |-> op, rh_null |-> FALSE, arg |-> 0, out_null |-> FALSE]
Changed == <<nodes, mem, status>>' # <<nodes, mem, status>>

\* No rendezvous_get_node_for call is in progress.
NoTraversal ==
  [pc |-> "idle", it |-> NULL, item_id |-> 0, max_hash |-> 0, chosen_node_id |-> 0]

\* Bookkeeping common to every call: the call, the registry before it,
\* whether it changed the registry or the heap, and the history kept.
RecordCall(c) ==
  /\ call' = IF track = "none" \/ (track = "memo" /\ c.op = "get") THEN c
             ELSE NoArgs(c.op)
  /\ pre' = IF track = "none" THEN [nodes |-> nodes, mem |-> mem] ELSE NoSnapshot
  /\ touched' = IF track = "none" THEN Changed ELSE FALSE
  /\ track' = track
  /\ added' = IF track # "hist" \/ c.rh_null THEN added
              ELSE IF c.op \in {"init", "free"} THEN {}
              ELSE IF c.op = "add" THEN added \cup {c.arg}
              ELSE IF c.op = "remove" THEN added \ {c.arg}
              ELSE added
  /\ dup_added' = IF track # "hist" \/ c.rh_null THEN dup_added
                  ELSE IF c.op \in {"init", "free"} THEN FALSE
                  ELSE IF c.op = "add" THEN dup_added \/ c.arg \in Range(Contents)
                  ELSE dup_added
  /\ gone' = IF track # "hist" \/ c.rh_null THEN gone
             ELSE IF c.op = "add" THEN gone \ {c.arg}
             ELSE IF c.op = "remove" /\ Count(Contents, c.arg) = 1 THEN gone \cup {c.arg}
             ELSE gone
  /\ memo' = IF track # "memo" THEN memo
             ELSE IF Changed THEN NoMemo
             ELSE IF c.op = "get" /\ ret' = RENDEZVOUS_HASHER_OK /\ memo = NoMemo
               THEN [key |-> c.arg, id |-> out']
             ELSE memo

\* A call that runs to completion without undefined behaviour and leaves
\* the locals of a traversal in progress alone.
Record(c) == RecordCall(c) /\ UNCHANGED <<fault, trav>>

\* ------------------------------------------------------------------------
\* rendezvous_init
\* ------------------------------------------------------------------------
rendezvous_init(rh_null) ==
  /\ IF rh_null
       THEN /\ ret' = RENDEZVOUS_HASHER_ERROR_IS_NULL
            /\ UNCHANGED <<nodes, mem, status>>
       ELSE /\ nodes' = NULL
            /\ ret' = RENDEZVOUS_HASHER_OK
            /\ UNCHANGED <<mem, status>>
  /\ out' = Uninit
  /\ visited' = 0
  /\ UNCHANGED hash
  /\ Record([op |-> "init", rh_null |-> rh_null, arg |-> 0, out_null |-> FALSE])

\* ------------------------------------------------------------------------
\* rendezvous_free
\* ------------------------------------------------------------------------
\* The while loop: free every entry reachable from it.
RECURSIVE free_loop(_, _, _)
free_loop(m, st, it) ==
  IF it = NULL THEN [mem |-> m, status |-> st]
  ELSE LET next == m[it].next
       IN free_loop(ScrubEntry(m, it), FreeEntry(st, it), next)

\* The number of iterations of that loop, counted from n.
RECURSIVE free_loop_visits(_, _, _)
free_loop_visits(m, it, n) ==
  IF it = NULL THEN n ELSE free_loop_visits(m, m[it].next, n + 1)

\* Variant: the final rh->nodes = NULL is missing.
free_keeps_head(rh_null) ==
  /\ IF rh_null
       THEN /\ ret' = RENDEZVOUS_HASHER_ERROR_IS_NULL
            /\ UNCHANGED <<nodes, mem, status>>
       ELSE LET r == free_loop(mem, status, nodes)
            IN /\ mem' = r.mem
               /\ status' = r.status
               /\ nodes' = nodes
               /\ ret' = RENDEZVOUS_HASHER_OK
  /\ out' = Uninit
  /\ visited' = 0
  /\ UNCHANGED hash
  /\ Record([op |-> "free", rh_null |-> rh_null, arg |-> 0, out_null |-> FALSE])

rendezvous_free(rh_null) ==
  /\ IF rh_null
       THEN /\ ret' = RENDEZVOUS_HASHER_ERROR_IS_NULL
            /\ UNCHANGED <<nodes, mem, status>>
       ELSE LET r == free_loop(mem, status, nodes)
            IN /\ mem' = r.mem
               /\ status' = r.status
               /\ nodes' = NULL
               /\ ret' = RENDEZVOUS_HASHER_OK
  /\ out' = Uninit
  /\ visited' = IF rh_null \/ track # "none" THEN 0
                ELSE free_loop_visits(mem, nodes, 0)
  /\ UNCHANGED hash
  /\ Record([op |-> "free", rh_null |-> rh_null, arg |-> 0, out_null |-> FALSE])

\* ------------------------------------------------------------------------
\* rendezvous_add_node
\* ------------------------------------------------------------------------
\* Variant: the new entry is not linked to the old head.
add_new_entry_unlinked(head, id) == [next |-> NULL, id |-> id]

\* The entry add_node writes into the freshly allocated cell.
add_new_entry(head, id) == [next |-> head, id |-> id]

\* Variant: an id the list already holds is not added again.
rendezvous_add_node_once(rh_null, id) ==
  /\ rh_null \/ CanMalloc(status)
  /\ IF rh_null
       THEN /\ ret' = RENDEZVOUS_HASHER_ERROR_IS_NULL
            /\ UNCHANGED <<nodes, mem, status>>
       ELSE IF id \in Range(Contents)
         THEN /\ ret' = RENDEZVOUS_HASHER_OK
              /\ UNCHANGED <<nodes, mem, status>>
         ELSE LET new_node == RENDEZVOUS_HASHER_MALLOC(status)
              IN /\ mem' = [mem EXCEPT ![new_node] = add_new_entry(nodes, id)]
                 /\ status' = [status EXCEPT ![new_node] = "live"]
                 /\ nodes' = new_node
                 /\ ret' = RENDEZVOUS_HASHER_OK
  /\ out' = Uninit
  /\ visited' = 0
  /\ UNCHANGED hash
  /\ Record([op |-> "add", rh_null |-> rh_null, arg |-> id, out_null |-> FALSE])

rendezvous_add_node(rh_null, id) ==
  /\ rh_null \/ CanMalloc(status)
  /\ IF rh_null
       THEN /\ ret' = RENDEZVOUS_HASHER_ERROR_IS_NULL
            /\ UNCHANGED <<nodes, mem, status>>
       ELSE LET new_node == RENDEZVOUS_HASHER_MALLOC(status)
            IN /\ mem' = [mem EXCEPT ![new_node] = add_new_entry(nodes, id)]
               /\ status' = [status EXCEPT ![new_node] = "live"]
               /\ nodes' = new_node
               /\ ret' = RENDEZVOUS_HASHER_OK
  /\ out' = Uninit
  /\ visited' = 0
  /\ UNCHANGED hash
  /\ Record([op |-> "add", rh_null |-> rh_null, arg |-> id, out_null |-> FALSE])

\* rendezvous_add_node when RENDEZVOUS_HASHER_MALLOC returns NULL. The code
\* has no check: new_node->next = rh->nodes stores through the null pointer,
\* which is undefined. Either the store traps and the call never returns, or
\* it goes through and the call carries on to rh->nodes = new_node and
\* return OK. What the program does afterwards is not modelled.
add_node_malloc_null(id) ==
  /\ \E outcome \in {"trap", "store"} :
       IF outcome = "trap"
         THEN UNCHANGED <<nodes, ret>>
         ELSE /\ nodes' = NULL
              /\ ret' = RENDEZVOUS_HASHER_OK
  /\ fault' = "null_deref"
  /\ out' = Uninit
  /\ visited' = 0
  /\ UNCHANGED <<hash, mem, status, trav>>
  /\ RecordCall([op |-> "add_malloc_null", rh_null |-> FALSE, arg |-> id,
                 out_null |-> FALSE])

\* ------------------------------------------------------------------------
\* rendezvous_remove_node
\* ------------------------------------------------------------------------
\* Variant: the comparison it->id == id is inverted.
RECURSIVE remove_search_neq(_, _, _, _)
remove_search_neq(m, it, prev, id) ==
  IF it = NULL THEN [found |-> FALSE, it |-> NULL, prev |-> prev]
  ELSE IF m[it].id # id THEN [found |-> TRUE, it |-> it, prev |-> prev]
  ELSE remove_search_neq(m, m[it].next, it, id)

\* The search loop: the first entry whose id matches, and its predecessor.
RECURSIVE remove_search(_, _, _, _)
remove_search(m, it, prev, id) ==
  IF it = NULL THEN [found |-> FALSE, it |-> NULL, prev |-> prev]
  ELSE IF m[it].id = id THEN [found |-> TRUE, it |-> it, prev |-> prev]
  ELSE remove_search(m, m[it].next, it, id)

\* The number of entries that loop compares with id, counted from n.
RECURSIVE remove_search_visits(_, _, _, _)
remove_search_visits(m, it, id, n) ==
  IF it = NULL THEN n
  ELSE IF m[it].id = id THEN n + 1
  ELSE remove_search_visits(m, m[it].next, id, n + 1)

\* Variant: prev->next = rh->nodes instead of prev->next = it->next.
remove_unlink_cycle(head, m, st, s) ==
  IF ~s.found THEN [nodes |-> head, mem |-> m, status |-> st]
  ELSE IF s.prev = NULL
    THEN [nodes |-> NULL, mem |-> ScrubEntry(m, head), status |-> FreeEntry(st, head)]
    ELSE [nodes |-> head,
          mem |-> ScrubEntry([m EXCEPT ![s.prev].next = head], s.it),
          status |-> FreeEntry(st, s.it)]

\* Variant: an entry that is not the head is freed but stays linked.
remove_unlink_stays(head, m, st, s) ==
  IF ~s.found THEN [nodes |-> head, mem |-> m, status |-> st]
  ELSE IF s.prev = NULL
    THEN [nodes |-> NULL, mem |-> ScrubEntry(m, head), status |-> FreeEntry(st, head)]
    ELSE [nodes |-> head, mem |-> m, status |-> FreeEntry(st, s.it)]

\* The if (found) block: unlink and free.
remove_unlink(head, m, st, s) ==
  IF ~s.found THEN [nodes |-> head, mem |-> m, status |-> st]
  ELSE IF s.prev = NULL
    THEN \* free(rh->nodes); rh->nodes = NULL;
         [nodes |-> NULL, mem |-> ScrubEntry(m, head), status |-> FreeEntry(st, head)]
    ELSE \* prev->next = it->next; free(it);
         [nodes |-> head,
          mem |-> ScrubEntry([m EXCEPT ![s.prev].next = m[s.it].next], s.it),
          status |-> FreeEntry(st, s.it)]

rendezvous_remove_node(rh_null, id) ==
  /\ IF rh_null
       THEN /\ ret' = RENDEZVOUS_HASHER_ERROR_IS_NULL
            /\ UNCHANGED <<nodes, mem, status>>
       ELSE IF nodes = NULL
       THEN /\ ret' = RENDEZVOUS_HASHER_OK
            /\ UNCHANGED <<nodes, mem, status>>
       ELSE LET r == remove_unlink(nodes, mem, status,
                                   remove_search(mem, nodes, NULL, id))
            IN /\ nodes' = r.nodes
               /\ mem' = r.mem
               /\ status' = r.status
               /\ ret' = RENDEZVOUS_HASHER_OK
  /\ out' = Uninit
  /\ visited' = IF rh_null \/ track # "none" THEN 0
                ELSE remove_search_visits(mem, nodes, id, 0)
  /\ UNCHANGED hash
  /\ Record([op |-> "remove", rh_null |-> rh_null, arg |-> id, out_null |-> FALSE])

\* ------------------------------------------------------------------------
\* rendezvous_get_node_for
\* ------------------------------------------------------------------------
\* Variant: the comparison is >= instead of >.
RECURSIVE get_loop_ge(_, _, _, _, _, _)
get_loop_ge(m, it, item_id, max_hash, chosen_node_id, n) ==
  IF it = NULL THEN [chosen_node_id |-> chosen_node_id, visited |-> n]
  ELSE LET node_id == m[it].id
           id_sum == (node_id + item_id) % IdMod
           id_sum_hash == RENDEZVOUS_HASHER_HASH(id_sum)
       IN IF id_sum_hash >= max_hash
            THEN get_loop_ge(m, m[it].next, item_id, id_sum_hash, node_id, n + 1)
            ELSE get_loop_ge(m, m[it].next, item_id, max_hash, chosen_node_id, n + 1)

\* The while loop: visit every entry, keep the id with the highest score.
RECURSIVE get_loop(_, _, _, _, _, _)
get_loop(m, it, item_id, max_hash, chosen_node_id, n) ==
  IF it = NULL THEN [chosen_node_id |-> chosen_node_id, visited |-> n]
  ELSE LET node_id == m[it].id
           id_sum == (node_id + item_id) % IdMod
           id_sum_hash == RENDEZVOUS_HASHER_HASH(id_sum)
       IN IF id_sum_hash > max_hash
            THEN get_loop(m, m[it].next, item_id, id_sum_hash, node_id, n + 1)
            ELSE get_loop(m, m[it].next, item_id, max_hash, chosen_node_id, n + 1)

\* Variant: chosen_node_id is declared without its initialiser.
get_select_uninit(m, head, item_id) == get_loop(m, head, item_id, 0, Uninit, 0)

\* Body after the argument checks: max_hash = 0, chosen_node_id = {0}.
get_select(m, head, item_id) == get_loop(m, head, item_id, 0, 0, 0)

\* Variant: the two argument checks in the opposite order.
get_check_swapped(rh_null, out_null) ==
  IF out_null THEN RENDEZVOUS_HASHER_ERROR_ARGUMENT_NULL
  ELSE IF rh_null THEN RENDEZVOUS_HASHER_ERROR_IS_NULL
  ELSE RENDEZVOUS_HASHER_OK

\* The argument checks: the value returned.
get_check(rh_null, out_null) ==
  IF rh_null THEN RENDEZVOUS_HASHER_ERROR_IS_NULL
  ELSE IF out_null THEN RENDEZVOUS_HASHER_ERROR_ARGUMENT_NULL
  ELSE RENDEZVOUS_HASHER_OK

\* Variant: the traversal advances rh->nodes itself instead of a local
\* iterator, so the list is gone from the registry when the call returns.
get_node_for_consuming(rh_null, item_id, out_null) ==
  /\ ret' = get_check(rh_null, out_null)
  /\ IF ret' = RENDEZVOUS_HASHER_OK
       THEN LET r == get_select(mem, nodes, item_id)
            IN /\ out' = r.chosen_node_id
               /\ visited' = r.visited
               /\ nodes' = NULL
       ELSE /\ out' = Uninit
            /\ visited' = 0
            /\ nodes' = nodes
  /\ UNCHANGED <<hash, mem, status>>
  /\ Record([op |-> "get", rh_null |-> rh_null, arg |-> item_id, out_null |-> out_null])

rendezvous_get_node_for(rh_null, item_id, out_null) ==
  /\ ret' = get_check(rh_null, out_null)
  /\ IF ret' = RENDEZVOUS_HASHER_OK
       THEN LET r == get_select(mem, nodes, item_id)
            IN /\ out' = r.chosen_node_id
               /\ visited' = r.visited
       ELSE /\ out' = Uninit
            /\ visited' = 0
  /\ UNCHANGED <<hash, nodes, mem, status>>
  /\ Record([op |-> "get", rh_null |-> rh_null, arg |-> item_id, out_null |-> out_null])

\* ------------------------------------------------------------------------
\* rendezvous_get_node_for, one step at a time
\* ------------------------------------------------------------------------
\* A call with valid pointers passes the checks and sets up its locals:
\* it = rh->nodes, max_hash = 0, chosen_node_id = {0}.
get_begin(item_id) ==
  /\ trav.pc = "idle"
  /\ trav' = [pc |-> "loop", it |-> nodes, item_id |-> item_id,
              max_hash |-> 0, chosen_node_id |-> 0]
  /\ UNCHANGED <<hash, nodes, mem, status, ret, out, visited, fault>>
  /\ UNCHANGED <<call, pre, touched, track, added, dup_added, gone, memo>>

\* One iteration of the while loop. It reads it->id and it->next; when the
\* entry has been freed in the meantime the read is undefined.
get_iterate ==
  /\ trav.pc = "loop"
  /\ trav.it # NULL
  /\ IF status[trav.it] # "live"
       THEN /\ fault' = "use_after_free"
            /\ UNCHANGED trav
       ELSE LET node_id == mem[trav.it].id
                id_sum == (node_id + trav.item_id) % IdMod
                id_sum_hash == RENDEZVOUS_HASHER_HASH(id_sum)
                better == id_sum_hash > trav.max_hash
            IN /\ trav' = [trav EXCEPT
                     !.it = mem[trav.it].next,
                     !.max_hash = IF better THEN id_sum_hash ELSE @,
                     !.chosen_node_id = IF better THEN node_id ELSE @]
               /\ UNCHANGED fault
  /\ UNCHANGED <<hash, nodes, mem, status, ret, out, visited>>
  /\ UNCHANGED <<call, pre, touched, track, added, dup_added, gone, memo>>

\* The loop has reached NULL: *node_id = chosen_node_id; return OK.
get_finish ==
  /\ trav.pc = "loop"
  /\ trav.it = NULL
  /\ out' = trav.chosen_node_id
  /\ ret' = RENDEZVOUS_HASHER_OK
  /\ trav' = NoTraversal
  /\ UNCHANGED <<hash, nodes, mem, status, visited, fault>>
  /\ RecordCall([op |-> "get", rh_null |-> FALSE, arg |-> trav.item_id,
                 out_null |-> FALSE])

\* ------------------------------------------------------------------------
\* Specification
\* ------------------------------------------------------------------------
\* The state after rendezvous_init(&rh) on a fresh registry.
InitRegistry ==
  /\ nodes = NULL
  /\ mem = [a \in Addrs |-> NoEntry]
  /\ status = [a \in Addrs |-> "unused"]
  /\ ret = RENDEZVOUS_HASHER_OK
  /\ out = Uninit
  /\ visited = 0
  /\ call = [op |-> "init", rh_null |-> FALSE, arg |-> 0, out_null |-> FALSE]
  /\ pre = NoSnapshot
  /\ touched = FALSE
  /\ added = {}
  /\ dup_added = FALSE
  /\ gone = {}
  /\ memo = NoMemo
  /\ fault = "none"
  /\ trav = NoTraversal

Init == InitRegistry /\ hash \in HashFunctions /\ track = "none"
InitHist == InitRegistry /\ hash \in LinearHashFunctions /\ track = "hist"
InitMemo == InitRegistry /\ hash \in LinearHashFunctions /\ track = "memo"

Next ==
  \/ \E rh_null \in BOOLEAN : rendezvous_init(rh_null)
  \/ \E rh_null \in BOOLEAN : rendezvous_free(rh_null)
  \/ \E id \in NodeIds : rendezvous_add_node(FALSE, id)
  \/ \E id \in NodeIds : rendezvous_remove_node(FALSE, id)
  \/ \E item_id \in Keys : rendezvous_get_node_for(FALSE, item_id, FALSE)
  \* calls with a null handle or a null output pointer
  \/ rendezvous_add_node(TRUE, 0)
  \/ rendezvous_remove_node(TRUE, 0)
  \/ \E rh_null, out_null \in BOOLEAN :
       (rh_null \/ out_null) /\ rendezvous_get_node_for(rh_null, 0, out_null)

Spec == Init /\ [][Next]_vars
\* The same program, with the history of additions and removals kept.
SpecHist == InitHist /\ [][Next]_vars
\* The same program, with the results of earlier get_node_for calls kept.
SpecMemo == InitMemo /\ [][Next]_vars

\* The program with an allocator that can fail. Execution is followed up to
\* the first undefined behaviour.
NextOom ==
  /\ fault = "none"
  /\ \/ Next
     \/ \E id \in NodeIds : add_node_malloc_null(id)

SpecOom == Init /\ [][NextOom]_vars

\* A thread that calls rendezvous_get_node_for, step by step, and a thread
\* that changes the registry. With the caller's lock a call of the second
\* thread waits until no traversal is in progress; without it, it runs between
\* any two steps of the traversal. Execution is followed up to the first
\* undefined behaviour.
InitConc ==
  InitRegistry /\ hash \in LinearHashFunctions /\ track \in {"locked", "unlocked"}

MayMutate == track = "unlocked" \/ trav.pc = "idle"

NextConc ==
  /\ fault = "none"
  /\ \/ \E item_id \in Keys : get_begin(item_id)
     \/ get_iterate
     \/ get_finish
     \/ MayMutate /\ \E id \in NodeIds : rendezvous_add_node(FALSE, id)
     \/ MayMutate /\ \E id \in NodeIds : rendezvous_remove_node(FALSE, id)
     \/ MayMutate /\ rendezvous_free(FALSE)

SpecConc == InitConc /\ [][NextConc]_vars

TypeOK ==
  /\ hash \in [Ids -> Scores]
  /\ nodes \in {NULL} \cup Addrs
  /\ mem \in [Addrs -> RendezvousHasherNodeList]
  /\ status \in [Addrs -> {"unused", "live", "freed"}]
  /\ ret \in {RENDEZVOUS_HASHER_OK, RENDEZVOUS_HASHER_ERROR_IS_NULL,
              RENDEZVOUS_HASHER_ERROR_ARGUMENT_NULL}
  /\ out \in Ids \cup {Uninit}
  /\ visited \in 0 .. MaxNodes
  /\ fault \in {"none", "null_deref", "use_after_free"}
  /\ trav.pc \in {"idle", "loop"}
  /\ trav.it \in {NULL} \cup Addrs

\* ------------------------------------------------------------------------
\* Properties
\* ------------------------------------------------------------------------
Distinct(s) == \A i, j \in 1 .. Len(s) : s[i] = s[j] => i = j

\* s without its first entry equal to x.
RECURSIVE RemoveFirst(_, _)
RemoveFirst(s, x) ==
  IF s = <<>> THEN <<>>
  ELSE IF Head(s) = x THEN Tail(s)
  ELSE <<Head(s)>> \o RemoveFirst(Tail(s), x)

\* score of node n for item key k: Hash((n + k) mod 2^IdBits)
Score(n, k) == RENDEZVOUS_HASHER_HASH((n + k) % IdMod)

\* What rendezvous_get_node_for writes for key k on the registry as it is
\* now, and as it was before the last call.
SelectedNow(k) == get_select(mem, nodes, k).chosen_node_id
SelectedBefore(k) == get_select(pre.mem, pre.nodes, k).chosen_node_id

ValidCall(op) == call.op = op /\ ~call.rh_null /\ ~call.out_null

\* C1: on a non-empty registry rendezvous_get_node_for returns OK and writes
\* the id of a registered node whose score for the item key is greater than
\* or equal to the score of every registered node.
C1_SelectsMaxRegistered ==
  (ValidCall("get") /\ PreContents # <<>>) =>
    /\ ret = RENDEZVOUS_HASHER_OK
    /\ out \in Range(PreContents)
    /\ \A n \in Range(PreContents) : Score(out, call.arg) >= Score(n, call.arg)

\* C2: removing a registered node C from a registry of pairwise distinct ids
\* leaves the selection of every key that was not assigned to C unchanged,
\* whatever the position of C in the list.
C2_RemovalKeepsOtherKeys ==
  (ValidCall("remove") /\ Distinct(PreContents) /\ call.arg \in Range(PreContents)) =>
    \A k \in Keys :
      SelectedBefore(k) # call.arg => SelectedNow(k) = SelectedBefore(k)

\* C3: after rendezvous_add_node(D) the selection of every key is either D or
\* the selection it had before the addition.
C3_AdditionKeepsOrCaptures ==
  ValidCall("add") =>
    \A k \in Keys : SelectedNow(k) = call.arg \/ SelectedNow(k) = SelectedBefore(k)

\* C3 witness: a node was added to a registry of at least two nodes; it
\* captured one key from a node and another key stayed with its node.
C3_Witness ==
  /\ ValidCall("add")
  /\ Len(PreContents) >= 2
  /\ \E k \in Keys : SelectedNow(k) = call.arg /\ SelectedBefore(k) \notin {0, call.arg}
  /\ \E k \in Keys : SelectedNow(k) # call.arg /\ SelectedNow(k) # 0

\* C4: as long as no id was added while already present, the list holds
\* exactly the ids added and not removed since, each exactly once.
C4_Membership ==
  ~dup_added => (Range(Contents) = added /\ Distinct(Contents))

\* C5: rendezvous_remove_node(id) on a registry that holds id removes the
\* first entry equal to id and keeps every other entry, in order.
C5_RemovesFirstMatchOnly ==
  (ValidCall("remove") /\ call.arg \in Range(PreContents)) =>
    Contents = RemoveFirst(PreContents, call.arg)

\* C6, as stated: an id whose only entry was removed and that was not added
\* again is never written by rendezvous_get_node_for, the zero id included.
C6_RemovedNeverSelected ==
  (call.op = "get" /\ ret = RENDEZVOUS_HASHER_OK) => out \notin gone

\* C6, amended: a non-zero id whose only entry was removed and that was not
\* added again is never written by rendezvous_get_node_for.
C6_RemovedNonZeroNeverSelected ==
  (call.op = "get" /\ ret = RENDEZVOUS_HASHER_OK) => out \notin (gone \ {0})

\* C6 witness: get_node_for selected a node of a non-empty registry while a
\* non-zero id is removed and not added again.
C6_Witness ==
  /\ call.op = "get" /\ ret = RENDEZVOUS_HASHER_OK
  /\ gone \ {0} # {}
  /\ Contents # <<>>
  /\ out # 0

\* C7: rendezvous_remove_node(id) with a valid handle and an id the registry
\* does not hold returns OK and changes neither the registry nor the heap.
C7_RemoveAbsentIsNoOp ==
  (ValidCall("remove") /\ call.arg \notin Range(PreContents)) =>
    /\ ret = RENDEZVOUS_HASHER_OK
    /\ ~touched
    /\ Contents = PreContents

\* C7 witness: an absent id was removed from a registry of two or more nodes.
C7_Witness ==
  /\ ValidCall("remove")
  /\ call.arg \notin Range(PreContents)
  /\ Len(PreContents) >= 2
  /\ ret = RENDEZVOUS_HASHER_OK

\* C8: a successful rendezvous_get_node_for changes neither rh->nodes nor any
\* heap entry, and it writes the id that the first call for the same key
\* wrote since the registry last changed, whatever calls for other keys
\* came in between.
C8_Deterministic ==
  [][(call'.op = "get" /\ ret' = RENDEZVOUS_HASHER_OK) =>
       /\ <<nodes, mem, status>>' = <<nodes, mem, status>>
       /\ ((memo # NoMemo /\ memo.key = call'.arg) => out' = memo.id)]_vars

\* C8 witness: after a call for one key was recorded, a call for another key
\* wrote a different id on the same non-empty registry.
C8_Witness ==
  /\ track = "memo"
  /\ call.op = "get" /\ ret = RENDEZVOUS_HASHER_OK
  /\ memo # NoMemo /\ memo.key # call.arg
  /\ out # memo.id /\ out # 0 /\ memo.id # 0

\* C9: a call with a null handle returns ERROR_IS_NULL (also when the output
\* pointer is null too); get_node_for with a valid handle and a null output
\* pointer returns ERROR_ARGUMENT_NULL; neither changes the registry or the
\* heap, nor writes the output variable.
C9_NullArguments ==
  /\ call.rh_null =>
       (ret = RENDEZVOUS_HASHER_ERROR_IS_NULL /\ ~touched /\ out = Uninit)
  /\ (call.op = "get" /\ ~call.rh_null /\ call.out_null) =>
       (ret = RENDEZVOUS_HASHER_ERROR_ARGUMENT_NULL /\ ~touched /\ out = Uninit)

\* C9 witness: get_node_for was called with both pointers null on a
\* non-empty registry.
C9_Witness ==
  /\ call.op = "get" /\ call.rh_null /\ call.out_null
  /\ ret = RENDEZVOUS_HASHER_ERROR_IS_NULL
  /\ Contents # <<>>

\* C10: on a registry with no nodes rendezvous_get_node_for returns OK,
\* writes the zero id and dereferences no list entry.
C10_EmptyRegistryWritesZero ==
  (ValidCall("get") /\ PreContents = <<>>) =>
    (ret = RENDEZVOUS_HASHER_OK /\ out = 0 /\ visited = 0)

\* C10 witness: get_node_for ran on a registry that had held nodes and was
\* emptied again.
C10_Witness ==
  /\ ValidCall("get")
  /\ PreContents = <<>>
  /\ \E a \in Addrs : status[a] = "freed"
  /\ out = 0

\* Addresses of the entries in the list now, and before the last call.
Addresses == ListAddrs(mem, nodes, MaxNodes)
PreAddresses == ListAddrs(pre.mem, pre.nodes, MaxNodes)

\* C11: rendezvous_free returns OK, frees every entry of the list and leaves
\* rh->nodes NULL; on a registry that is already empty it changes nothing;
\* add_node and get_node_for on the empty registry behave as on a freshly
\* initialised one.
C11_TeardownIdempotent ==
  /\ ValidCall("free") =>
       /\ ret = RENDEZVOUS_HASHER_OK
       /\ nodes = NULL
       /\ \A a \in Range(PreAddresses) : status[a] = "freed"
       /\ (pre.nodes = NULL => ~touched)
  /\ (ValidCall("add") /\ pre.nodes = NULL) =>
       (ret = RENDEZVOUS_HASHER_OK /\ Contents = <<call.arg>>)
  /\ (ValidCall("get") /\ pre.nodes = NULL) =>
       (ret = RENDEZVOUS_HASHER_OK /\ out = 0)

\* C11 witness: rendezvous_free ran on a registry that was already empty,
\* all of whose entries had been freed before.
C11_Witness ==
  /\ ValidCall("free")
  /\ pre.nodes = NULL
  /\ ~touched
  /\ Cardinality({a \in Addrs : status[a] = "freed"}) >= 2
  /\ \A a \in Addrs : status[a] # "live"

\* C12: if the allocator returns NULL inside rendezvous_add_node, the call
\* reports an explicit error, does not dereference the null entry, and leaves
\* the registry contents unchanged.
C12_AllocationFailureReported ==
  call.op = "add_malloc_null" =>
    /\ fault = "none"
    /\ ret \in {RENDEZVOUS_HASHER_ERROR_IS_NULL,
                RENDEZVOUS_HASHER_ERROR_ARGUMENT_NULL}
    /\ Contents = PreContents

\* The registry that rendezvous_init followed by one rendezvous_add_node per
\* entry of ids, in that order, builds on a fresh heap.
RECURSIVE BuildRegistry(_)
BuildRegistry(ids) ==
  IF ids = <<>>
    THEN [nodes |-> NULL, mem |-> [a \in Addrs |-> NoEntry],
          status |-> [a \in Addrs |-> "unused"]]
    ELSE LET r == BuildRegistry(SubSeq(ids, 1, Len(ids) - 1))
             new_node == RENDEZVOUS_HASHER_MALLOC(r.status)
         IN [nodes |-> new_node,
             mem |-> [r.mem EXCEPT
                        ![new_node] = add_new_entry(r.nodes, ids[Len(ids)])],
             status |-> [r.status EXCEPT ![new_node] = "live"]]

\* The id rendezvous_get_node_for writes for key k on registry r.
SelectedIn(r, k) == get_select(r.mem, r.nodes, k).chosen_node_id

\* Every order in which the ids of S can be added, each once.
Orders(S) == {s \in [1 .. Cardinality(S) -> S] : Range(s) = S}

\* The highest score for key k among the ids of S.
MaxScoreOf(S, k) == CHOOSE x \in Scores :
  /\ \A n \in S : Score(n, k) <= x
  /\ (x = 0 \/ \E n \in S : Score(n, k) = x)

\* No two ids of S share a highest score above 0 for key k.
NoTieAtMax(S, k) ==
  \/ MaxScoreOf(S, k) = 0
  \/ Cardinality({n \in S : Score(n, k) = MaxScoreOf(S, k)}) = 1

\* C13: insertion order is irrelevant to selection: registries holding the
\* same set of distinct ids, built by add_node calls in different orders,
\* get the same id written by get_node_for, for every hash and key.
C13_InsertionOrderIrrelevant ==
  (ValidCall("get") /\ Distinct(PreContents)) =>
    \A s \in Orders(Range(PreContents)) :
      SelectedIn(BuildRegistry(s), call.arg) = out

\* C13 (amended): the same, for keys on which no two registered ids tie at a
\* highest score above 0.
C13_OrderIrrelevantWithoutTie ==
  (/\ ValidCall("get")
   /\ Distinct(PreContents)
   /\ NoTieAtMax(Range(PreContents), call.arg)) =>
    \A s \in Orders(Range(PreContents)) :
      SelectedIn(BuildRegistry(s), call.arg) = out

\* Every id registered once, a single highest score above 0, and the id written is
\* the one visited last, which other insertion orders visit first.
C13_Witness ==
  /\ ValidCall("get")
  /\ Distinct(PreContents)
  /\ Range(PreContents) = NodeIds
  /\ MaxScoreOf(Range(PreContents), call.arg) > 0
  /\ NoTieAtMax(Range(PreContents), call.arg)
  /\ out = PreContents[Len(PreContents)]
  /\ \A s \in Orders(Range(PreContents)) :
       SelectedIn(BuildRegistry(s), call.arg) = out

\* C14: without external locking a rendezvous_remove_node or rendezvous_free
\* step interleaved with the traversal of rendezvous_get_node_for leads to a
\* read of a freed entry (C14_Witness is reachable); when the caller
\* serialises all access, the traversal never stands on a freed entry and no
\* such read happens.
C14_SerialisedIsSafe ==
  track = "locked" =>
    /\ fault = "none"
    /\ (trav.pc = "loop" /\ trav.it # NULL) => status[trav.it] = "live"

\* Without the lock: the traversal has read an entry freed by a
\* rendezvous_remove_node or rendezvous_free that ran in between its steps.
C14_Witness ==
  /\ track = "unlocked"
  /\ fault = "use_after_free"
  /\ trav.pc = "loop"
  /\ status[trav.it] = "freed"
  /\ call.op \in {"remove", "free"}

\* Positions, in traversal order, of the entries of the list before the last
\* call whose score for key k is the highest of the list.
TiedAtMax(k) ==
  {i \in 1 .. Len(PreContents) :
     Score(PreContents[i], k) = MaxScoreOf(Range(PreContents), k)}

\* C15: when the highest score for the key is above 0, get_node_for writes
\* the id of the entry with that score that is visited first; of the entries
\* with that score it is the most recently added (add_node prepends, and it
\* holds the most recently allocated address); entries visited later with
\* an equal score do not replace it.
C15_TieBreakFirstVisited ==
  (ValidCall("get") /\ MaxScoreOf(Range(PreContents), call.arg) > 0) =>
    \E i \in TiedAtMax(call.arg) :
      /\ out = PreContents[i]
      /\ \A j \in TiedAtMax(call.arg) :
           i <= j /\ PreAddresses[i] >= PreAddresses[j]

\* Two different ids tie at a highest score above 0; an entry with a lower
\* score above 0 is visited before them and replaced by the first of them.
C15_Witness ==
  /\ ValidCall("get")
  /\ MaxScoreOf(Range(PreContents), call.arg) > 0
  /\ \E i, j \in TiedAtMax(call.arg) :
       /\ i < j
       /\ PreContents[i] # PreContents[j]
       /\ out = PreContents[i]
       /\ out # PreContents[j]
       /\ \E h \in 1 .. (i - 1) : Score(PreContents[h], call.arg) > 0

\* C16: adding an id the registry already contains returns OK, adds one more
\* entry, and get_node_for writes the same id as before for every key.
C16_DuplicateKeepsSelection ==
  (ValidCall("add") /\ call.arg \in Range(PreContents)) =>
    /\ ret = RENDEZVOUS_HASHER_OK
    /\ Len(Contents) = Len(PreContents) + 1
    /\ \A k \in Keys : SelectedNow(k) = SelectedBefore(k)

\* C16 (amended): the same, except for the keys on which the duplicated id
\* has the highest score and that score is above 0: for those the id written
\* is the duplicated id, whichever of the tied ids was written before.
C16_DuplicateKeepsSelectionOrWinsTie ==
  (ValidCall("add") /\ call.arg \in Range(PreContents)) =>
    /\ ret = RENDEZVOUS_HASHER_OK
    /\ Len(Contents) = Len(PreContents) + 1
    /\ Contents = <<call.arg>> \o PreContents
    /\ \A k \in Keys :
         LET top == MaxScoreOf(Range(PreContents), k)
         IN SelectedNow(k) = IF top > 0 /\ Score(call.arg, k) = top
                               THEN call.arg
                               ELSE SelectedBefore(k)

\* A duplicate of an id that is not the one written for some key with a
\* highest score above 0, and a key on which the duplicate takes over a tie.
C16_Witness ==
  /\ ValidCall("add")
  /\ call.arg \in Range(PreContents)
  /\ Len(Contents) = Len(PreContents) + 1
  /\ \E k \in Keys :
       /\ MaxScoreOf(Range(PreContents), k) > 0
       /\ SelectedBefore(k) # call.arg
       /\ SelectedNow(k) = SelectedBefore(k)
  /\ \E k \in Keys :
       /\ SelectedBefore(k) # call.arg
       /\ SelectedNow(k) = call.arg

\* The list reachable from rh->nodes has no entry twice, ends in NULL and
\* consists of live entries.
AcyclicNullTerminated ==
  /\ Distinct(Addresses)
  /\ Addresses # <<>> => mem[Addresses[Len(Addresses)]].next = NULL
  /\ \A a \in Range(Addresses) : status[a] = "live"

\* C17: after rendezvous_init and any sequence of sequential calls the list
\* is acyclic and NULL-terminated, and the loops of rendezvous_free,
\* rendezvous_remove_node and rendezvous_get_node_for end after visiting at
\* most as many entries as were registered when the call was made.
C17_AcyclicBoundedTraversal ==
  /\ AcyclicNullTerminated
  /\ Len(Contents) <= Cardinality({a \in Addrs : status[a] = "live"})
  /\ ValidCall("get") => visited = Len(PreContents)
  /\ ValidCall("free") => visited = Len(PreContents)
  /\ ValidCall("remove") =>
       /\ visited <= Len(PreContents)
       /\ call.arg \notin Range(PreContents) => visited = Len(PreContents)

\* A removal that walked a list of several entries to its last entry and
\* unlinked it, leaving a shorter list that still ends in NULL.
C17_Witness ==
  /\ ValidCall("remove")
  /\ touched
  /\ Len(PreContents) > 1
  /\ visited = Len(PreContents)
  /\ Len(Contents) = Len(PreContents) - 1
  /\ AcyclicNullTerminated

\* C18: no leak and no double free: after every add_node, remove_node and
\* free call each entry that was in the list before the call is still
\* reachable from rh->nodes or has been freed, every reachable entry is live
\* (so none is freed twice or read after being freed), and after
\* rendezvous_free every entry of the list has been freed.
C18_NoLeakNoDoubleFree ==
  (ValidCall("add") \/ ValidCall("remove") \/ ValidCall("free")) =>
    /\ \A a \in Range(PreAddresses) :
         a \in Range(Addresses) \/ status[a] = "freed"
    /\ \A a \in Range(Addresses) : status[a] = "live"
    /\ ValidCall("free") => \A a \in Range(PreAddresses) : status[a] = "freed"

====
